---- MODULE Spec2Model ----
(***************************************************************************)
(* Model of src/web/queries_supabase.py: the read-only aggregation         *)
(* pipelines over the NFL statistics store (player season list, player     *)
(* game log, weekly receiving/rushing dashboards, season receiving/rushing *)
(* summaries) and the headshot resolver with its mapping-file load.        *)
(*                                                                         *)
(* Values fetched from the store are loosely typed (JSON): an integer, a   *)
(* null or a string.  They are modelled as tagged records so that the      *)
(* coercions of the source (_safe_int, int(), "or 0", str.upper, ...) are  *)
(* computed, not assumed.                                                  *)
(*                                                                         *)
(* A fetched fact table is a sequence of runs [row |-> r, n |-> k]: k      *)
(* consecutive rows equal to r, as the collaborator may return them (the   *)
(* pipelines neither assume nor check that rows are distinct).  Runs let   *)
(* the row caps of the source (200, 300) be reached with their real        *)
(* values.                                                                 *)
(***************************************************************************)
EXTENDS Integers, Sequences, FiniteSets, TLC

VARIABLES
    teams,        \* nfl_teams: sequence of team rows
    players,      \* nfl_players: sequence of player rows
    games,        \* nfl_games: sequence of game rows
    seasonStats,  \* nfl_player_season_stats: sequence of runs of stat rows
    gameStats,    \* nfl_player_game_stats: sequence of runs of stat rows
    csvFile,      \* data/db_playerids.csv: "absent", "unparsable" or "ok"
    pandasOk,     \* whether `import pandas` succeeds in this process
    call,         \* the invocation that last ran: [op, args] or Idle
    result,       \* what it returned: a sequence of runs of output rows, or a photo URL
    err,          \* TRUE when it raised instead of returning
    fetches,      \* the select calls it issued to the collaborator, in order
    csvAttempts,  \* executions of _df's body so far in this process
    csvReads,     \* pd.read_csv calls so far in this process
    firstLoad     \* outcome of the first execution of _df: "none", "ok", "failed"

vars == <<teams, players, games, seasonStats, gameStats, csvFile, pandasOk,
          call, result, err, fetches, csvAttempts, csvReads, firstLoad>>

-----------------------------------------------------------------------------
(* Bounds of the model. *)

\* longest fact table (in runs) drawn at Init
MaxRows == 2
\* length of a long run of equal rows (chosen above both row caps)
BigRun == 300
\* no further invocation starts once _df has run this often
MaxLoads == 2

-----------------------------------------------------------------------------
(* Loosely typed values. *)

NULL == [t |-> "null"]
I(n) == [t |-> "int", v |-> n]
S(s) == [t |-> "str", s |-> s]

\* Python truthiness of a fetched value (used by `x or default`, `if team:`)
Truthy(x) ==
    CASE x.t = "null" -> FALSE
      [] x.t = "int"  -> x.v # 0
      [] x.t = "str"  -> x.s # ""

\* the decimal strings int() parses in this model
IntOfStr == [s \in {"1", "2", "7"} |-> CASE s = "1" -> 1 [] s = "2" -> 2 [] s = "7" -> 7]

\* int(x) raises (ValueError/TypeError) on this value
IntRaises(x) ==
    \/ x.t = "null"
    \/ x.t = "str" /\ x.s \notin DOMAIN IntOfStr

\* int(x) where it does not raise
IntOf(x) == IF x.t = "int" THEN x.v ELSE IntOfStr[x.s]

\* _safe_int: Optional[int], NULL standing for None
_safe_int(x) ==
    IF x.t = "null" \/ x = S("") THEN NULL
    ELSE IF IntRaises(x) THEN NULL ELSE I(IntOf(x))

\* `_safe_int(x) or 0`
OrZero(x) == LET v == _safe_int(x) IN IF v = NULL THEN 0 ELSE v.v

\* str.upper() on the strings of this model
Upper(s) ==
    CASE s = "kc" -> "KC"
      [] s = "sf" -> "SF"
      [] s = "wr" -> "WR"
      [] s = "rb" -> "RB"
      [] s = "rb " -> "RB "
      [] s = "abc" -> "ABC"
      [] OTHER -> s

\* str.strip() on the strings of this model
Strip(s) ==
    CASE s = "rb " -> "rb"
      [] s = "RB " -> "RB"
      [] OTHER -> s

\* `(x or "")` for a fetched string column or a string argument
OrEmpty(x) == IF Truthy(x) /\ x.t = "str" THEN x.s ELSE ""

Min(a, b) == IF a < b THEN a ELSE b
Max(a, b) == IF a > b THEN a ELSE b

-----------------------------------------------------------------------------
(* Sequences of runs. *)

Run(r, k) == [row |-> r, n |-> k]

RECURSIVE RunLen(_)
\* len() of the list a sequence of runs stands for
RunLen(rs) == IF rs = <<>> THEN 0 ELSE Head(rs).n + RunLen(Tail(rs))

RECURSIVE TakeRuns(_, _)
\* the slice xs[:k], k >= 0
TakeRuns(rs, k) ==
    IF rs = <<>> \/ k <= 0 THEN <<>>
    ELSE IF Head(rs).n >= k THEN <<Run(Head(rs).row, k)>>
    ELSE <<Head(rs)>> \o TakeRuns(Tail(rs), k - Head(rs).n)

\* the rows occurring in rs
RowsOf(rs) == {rs[i].row : i \in 1..Len(rs)}

\* list.sort(key=..., reverse=True): stable, descending; key maps each row
\* of rs to its sort key
SortDesc(rs, key) ==
    LET n == Len(rs)
        rank(i) == Cardinality({j \in 1..n :
                      \/ key[rs[j].row] > key[rs[i].row]
                      \/ key[rs[j].row] = key[rs[i].row] /\ j < i})
    IN [p \in 1..n |-> rs[CHOOSE i \in 1..n : rank(i) = p - 1]]

\* [f(r) for r in rs]; f maps each row of rs to the new row
MapRuns(rs, f) == [i \in 1..Len(rs) |-> Run(f[rs[i].row], rs[i].n)]

\* [r for r in rs if keep(r)]; keep maps each row of rs to a boolean
FilterRuns(rs, keep) == SelectSeq(rs, LAMBDA x : keep[x.row])

-----------------------------------------------------------------------------
(* The table-query collaborator, sb.select(table, select, filters, order,  *)
(* limit).  Its code is not part of this file; it is modelled from its     *)
(* contract: the rows matching every filter, in table order (or the order  *)
(* asked for), cut to the limit.  Id columns of the store are integers: a  *)
(* row whose id is not an integer matches no eq./in. filter on that id.    *)

\* rows[:limit] of a plain sequence
Limit(rows, k) == SubSeq(rows, 1, Min(Len(rows), Max(k, 0)))

\* the store's test for `column = eq.<n>` / membership in `in.(...)`
StoreIntIn(x, ids) == x.t = "int" /\ x.v \in ids

\* one entry of the log of select calls
Fetch(table, filter, ids, limit) ==
    [table |-> table, filter |-> filter, ids |-> ids, limit |-> limit]

\* select("nfl_teams", filters={"abbreviation": "eq.<abbr>"}, limit=1)
SelectTeamByAbbr(abbr) ==
    Limit(SelectSeq(teams, LAMBDA t : t.abbreviation = S(abbr)), 1)

\* select("nfl_teams", filters={"id": "in.(ids)"}, limit=k)
SelectTeamsIn(ids, k) ==
    Limit(SelectSeq(teams, LAMBDA t : StoreIntIn(t.id, ids)), k)

\* select("nfl_players", filters={"id": "in.(ids)"}, limit=k)
SelectPlayersIn(ids, k) ==
    Limit(SelectSeq(players, LAMBDA p : StoreIntIn(p.id, ids)), k)

\* select("nfl_games", filters={"id": "in.(ids)"}, limit=k)
SelectGamesIn(ids, k) ==
    Limit(SelectSeq(games, LAMBDA g : StoreIntIn(g.id, ids)), k)

\* select("nfl_player_season_stats", season=eq.<season>, postseason=eq.false, limit=k)
SelectSeasonStats(season, k) ==
    TakeRuns(FilterRuns(seasonStats,
                 [r \in RowsOf(seasonStats) |->
                     StoreIntIn(r.season, {season}) /\ ~r.postseason]), k)

\* the filters dict of a game-stats select, as a record [season, week,
\* team_id, player_id, regular]; NULL where the filter is not set
GameStatMatches(r, f) ==
    /\ StoreIntIn(r.season, {f.season})
    /\ f.week = NULL \/ StoreIntIn(r.week, {f.week.v})
    /\ f.team_id = NULL \/ StoreIntIn(r.team_id, {f.team_id.v})
    /\ f.player_id = NULL \/ StoreIntIn(r.player_id, {f.player_id.v})
    /\ f.regular => ~r.postseason

\* order=week.asc (rows of the same week keep their table order)
OrderByWeek(hit) ==
    [p \in 1..Len(hit) |->
        hit[CHOOSE i \in 1..Len(hit) :
               Cardinality({j \in 1..Len(hit) :
                   \/ hit[j].row.week.v < hit[i].row.week.v
                   \/ hit[j].row.week.v = hit[i].row.week.v /\ j < i}) = p - 1]]

\* select("nfl_player_game_stats", filters=f, order=week.asc if byWeek, limit=k)
SelectGameStats(f, byWeek, k) ==
    TakeRuns(IF byWeek
             THEN OrderByWeek(FilterRuns(gameStats,
                                 [r \in RowsOf(gameStats) |-> GameStatMatches(r, f)]))
             ELSE FilterRuns(gameStats, [r \in RowsOf(gameStats) |-> GameStatMatches(r, f)]),
             k)

-----------------------------------------------------------------------------
(* The headshot resolver, player_photo_url_from_name_team. *)

\* the rows of data/db_playerids.csv when the file is present and parsable
\* (columns read with dtype=str; "nan" is how a missing cell reads back)
CsvRows ==
    << [merge_name |-> "al bo", team |-> "kc", db_season |-> "2",   espn_id |-> "nan", sleeper_id |-> "21"],
       [merge_name |-> "al bo", team |-> "SF", db_season |-> "7",   espn_id |-> "12",  sleeper_id |-> "22"],
       [merge_name |-> "cy",    team |-> "KC", db_season |-> "abc", espn_id |-> "",    sleeper_id |-> ""],
       [merge_name |-> "odee",  team |-> "SF", db_season |-> "1",   espn_id |-> "14",  sleeper_id |-> "nan"] >>

\* _merge_name on the names of this model: lower-case, drop what is not
\* [a-z0-9 ], trim, collapse blanks
_merge_name(name) ==
    CASE name = "Al Bo" -> "al bo"
      [] name = "Cy"    -> "cy"
      [] name = "O'Dee" -> "odee"
      [] name = "'"     -> ""
      [] OTHER -> name

\* what _df() returns: the frame's rows, or NULL (file absent, or read_csv raised)
_df == IF csvFile = "ok" THEN CsvRows ELSE NULL

\* pd.to_numeric(db_season, errors="coerce"), -1 standing for NaN (sorts last)
SeasonNum(row) ==
    IF row.db_season \in DOMAIN IntOfStr THEN IntOfStr[row.db_season] ELSE -1

\* lines 75-81: the URL built from the chosen row
PhotoUrlOf(rec) ==
    IF Strip(rec.espn_id) # "" /\ Strip(rec.espn_id) # "nan"
    THEN S("https://a.espncdn.com/i/headshots/nfl/players/full/" \o Strip(rec.espn_id) \o ".png")
    ELSE IF Strip(rec.sleeper_id) # "" /\ Strip(rec.sleeper_id) # "nan"
    THEN S("https://sleepercdn.com/content/nfl/players/" \o Strip(rec.sleeper_id) \o ".jpg")
    ELSE NULL

\* lines 69-74: the candidate with the largest season comes first
PhotoPick(cand) ==
    cand[CHOOSE i \in 1..Len(cand) :
            \A j \in 1..Len(cand) :
                \/ SeasonNum(cand[j]) < SeasonNum(cand[i])
                \/ SeasonNum(cand[j]) = SeasonNum(cand[i]) /\ i <= j]

\* lines 64-67: narrow to the team's rows when there are any
PhotoCandidates(sub, tsub, team_abbr) ==
    IF team_abbr # "" /\ tsub # <<>> THEN tsub ELSE sub

\* lines 56-81, sub being the rows of the name
PhotoFromName(sub, team_abbr) ==
    IF sub = <<>> THEN NULL
    ELSE PhotoUrlOf(PhotoPick(PhotoCandidates(
             sub, SelectSeq(sub, LAMBDA r : Upper(r.team) = team_abbr), team_abbr)))

\* lines 51-63, df being what _df() returned
PhotoFromFrame(df, mn, team_abbr) ==
    IF df = NULL \/ df = <<>> THEN NULL
    ELSE IF mn = "" THEN NULL
    ELSE PhotoFromName(SelectSeq(df, LAMBDA r : r.merge_name = mn), team_abbr)

\* lines 50-81, given that pandas imported
PhotoLookup(name, team) == PhotoFromFrame(_df, _merge_name(name), Upper(Strip(OrEmpty(team))))

\* the value player_photo_url_from_name_team returns
player_photo_url_from_name_team(name, team) ==
    IF ~pandasOk THEN NULL ELSE PhotoLookup(name, team)

\* how often _df's body runs when the resolver is called k times: the
\* lru_cache is created anew inside every call (lines 39-40), so each call
\* that gets past the pandas import runs the body once
LoadsOf(k) == IF pandasOk THEN k ELSE 0

\* the process-wide effect of k resolver calls on the load accounting
PhotoEffect(k) ==
    LET a == LoadsOf(k) IN
    /\ csvAttempts' = csvAttempts + a
    /\ csvReads' = csvReads + (IF csvFile = "absent" THEN 0 ELSE a)
    /\ firstLoad' = IF firstLoad # "none" \/ a = 0 THEN firstLoad
                    ELSE IF csvFile = "ok" THEN "ok" ELSE "failed"

-----------------------------------------------------------------------------
(* Helpers shared by the pipelines. *)

\* what a pipeline hands back: the rows returned, the select calls issued,
\* whether it raised, and how often it called the headshot resolver
Outcome(rows, log, raised, photos) ==
    [rows |-> rows, fetches |-> log, err |-> raised, photos |-> photos]

\* a float quotient, kept exact
Frac(a, b) == [num |-> a, den |-> b]

\* the dict built from fetched rows by `m[key(row)] = val(row)` in order
\* (a later row with the same key overwrites an earlier one)
\* rows: the <<key, value>> pairs in the order they are stored
DictOf(pairs) ==
    LET keys == {pairs[i][1] : i \in 1..Len(pairs)}
        last(k) == CHOOSE i \in 1..Len(pairs) :
                      /\ pairs[i][1] = k
                      /\ \A j \in 1..Len(pairs) : pairs[j][1] = k => j <= i
    IN [k \in keys |-> pairs[last(k)][2]]

\* the rows whose id coerces, each paired with that id
ById(rows) ==
    LET good == SelectSeq(rows, LAMBDA r : _safe_int(r.id) # NULL)
    IN [i \in 1..Len(good) |-> <<_safe_int(good[i].id).v, good[i]>>]

\* dict.get(k) for an Optional[int] key already tested for None by the caller
Get(m, k, default) == IF k # NULL /\ k.v \in DOMAIN m THEN m[k.v] ELSE default

\* pmap.get(pid, {}): the empty dict answers None for every column
NoPlayer == [id |-> NULL, first_name |-> NULL, last_name |-> NULL,
             position_abbreviation |-> NULL, team_id |-> NULL]

\* _team_map: [map, fetches]; no fetch for an empty id list
_team_map(team_ids, n) ==
    IF team_ids = {} THEN [map |-> <<>>, fetches |-> <<>>]
    ELSE LET rows == SelectTeamsIn(team_ids, n)
             good == SelectSeq(rows, LAMBDA t : ~IntRaises(t.id))
         IN [map |-> DictOf([i \in 1..Len(good) |->
                              <<IntOf(good[i].id), S(Upper(OrEmpty(good[i].abbreviation)))>>]),
             fetches |-> <<Fetch("nfl_teams", "id.in", team_ids, n)>>]

\* _has_any_stats
_has_any_stats(row) ==
    \E v \in { _safe_int(row.passing_attempts), _safe_int(row.passing_completions),
                _safe_int(row.rushing_attempts), _safe_int(row.receptions),
                _safe_int(row.receiving_targets) } :
        v # NULL /\ v.v # 0 /\ v.v > 0

\* clamp of the requested display limit: min(max(limit, 1), cap)
Clamp(limit, cap) == Min(Max(limit, 1), cap)

\* the team-abbreviation lookup that opens the list and dashboard views:
\* [id, fetches]; id stays None when team is empty, not found or its id is
\* not coercible
\* variant: the id the lookup found is not used
MutTeamIdOfUnresolved(team) ==
    IF ~Truthy(team) THEN [id |-> NULL, fetches |-> <<>>]
    ELSE [id |-> NULL, fetches |-> <<Fetch("nfl_teams", "abbreviation.eq", {}, 1)>>]

\* variant: the abbreviation lookup issued also when no team is given
MutTeamIdOfAlwaysFetches(team) ==
    [id |-> IF Truthy(team) /\ SelectTeamByAbbr(OrEmpty(team)) # <<>>
            THEN _safe_int(SelectTeamByAbbr(OrEmpty(team))[1].id) ELSE NULL,
     fetches |-> <<Fetch("nfl_teams", "abbreviation.eq", {}, 1)>>]

TeamIdOf(team) ==
    IF ~Truthy(team) THEN [id |-> NULL, fetches |-> <<>>]
    ELSE LET t == SelectTeamByAbbr(team.s)
         IN [id |-> IF t # <<>> THEN _safe_int(t[1].id) ELSE NULL,
             fetches |-> <<Fetch("nfl_teams", "abbreviation.eq", {}, 1)>>]

\* (first + " " + last).strip() or str(pid), for stripped name parts
NameOf(p, pid) ==
    LET first == Strip(OrEmpty(p.first_name))
        last == Strip(OrEmpty(p.last_name))
        full == IF first = "" THEN last
                ELSE IF last = "" THEN first
                ELSE first \o " " \o last
    IN IF full = "" THEN ToString(pid) ELSE full

-----------------------------------------------------------------------------
(* get_players_list (lines 169-306). *)

\* row cap of the list view (line 306)
ListCap == 300
\* row cap of the season-stats fetch (line 200), also the limit the season
\* summaries pass to the list (lines 558, 599)
StatsFetchLimit == 8000

\* sort_key (lines 299-303)
\* variant: every position ranked by rushingYards
MutSortKeyRushing(r) == r.rushingYards

sort_key(r) ==
    IF Upper(OrEmpty(r.position)) \in {"WR", "TE"} THEN r.receivingYards ELSE r.rushingYards

\* pos of a player row (line 237)
PosOf(p) == Upper(Strip(OrEmpty(p.position_abbreviation)))

\* the output row built from stat row s and player row p (lines 241-296)
ListRow(s, p, pid, season, team_map) ==
    [player_id |-> ToString(pid),
     player_name |-> NameOf(p, pid),
     team |-> Get(team_map, _safe_int(p.team_id), NULL),
     position |-> IF PosOf(p) = "" THEN NULL ELSE S(PosOf(p)),
     season |-> season,
     games |-> OrZero(s.games_played),
     targets |-> OrZero(s.receiving_targets),
     receptions |-> OrZero(s.receptions),
     receivingYards |-> OrZero(s.receiving_yards),
     avgYardsPerCatch |-> IF OrZero(s.receptions) # 0
                          THEN Frac(OrZero(s.receiving_yards), OrZero(s.receptions))
                          ELSE Frac(0, 1),
     rushAttempts |-> OrZero(s.rushing_attempts),
     rushingYards |-> OrZero(s.rushing_yards),
     avgYardsPerRush |-> IF OrZero(s.rushing_attempts) # 0
                         THEN Frac(OrZero(s.rushing_yards), OrZero(s.rushing_attempts))
                         ELSE Frac(0, 1),
     passingAttempts |-> OrZero(s.passing_attempts),
     passingCompletions |-> OrZero(s.passing_completions),
     photoUrl |-> player_photo_url_from_name_team(
                      NameOf(p, pid), Get(team_map, _safe_int(p.team_id), NULL))]

\* line 202: only stat rows with a recorded stat are kept
\* variant: the has-stats filter left out
MutKeepAllStats(stats_rows) == stats_rows

KeepWithStats(stats_rows) ==
    FilterRuns(stats_rows, [r \in RowsOf(stats_rows) |-> _has_any_stats(r)])

\* the stat rows whose player_id coerces (lines 206-207)
WithPlayerId(stats_rows) ==
    FilterRuns(stats_rows, [r \in RowsOf(stats_rows) |-> _safe_int(r.player_id) # NULL])

\* the ids of lines 206-207 / 459 / 517, as a set
PlayerIds(rows) == {_safe_int(r.player_id).v : r \in RowsOf(WithPlayerId(rows))}

\* line 225: the id expressions whose int() builds team_ids
TeamIdCells(prows) ==
    {prows[i].team_id : i \in {j \in 1..Len(prows) :
                                 prows[j].team_id # NULL /\ prows[j].team_id # S("")}}

\* lines 234-236: the player row joined to a stat row, NULL when the lookup misses
\* variant: a missing player answered by the empty dict, as the dashboards do
MutJoinPlayerDefault(player_map, pid) == Get(player_map, pid, NoPlayer)

JoinPlayer(player_map, pid) == Get(player_map, pid, NULL)

\* lines 231-243: whether a stat row gets an output row
ListKeeps(r, player_map, pos_filter, team_id) ==
    /\ _safe_int(r.player_id) # NULL
    /\ JoinPlayer(player_map, _safe_int(r.player_id)) # NULL
    /\ pos_filter = "" \/ PosOf(JoinPlayer(player_map, _safe_int(r.player_id))) = pos_filter
    /\ team_id = NULL
       \/ _safe_int(JoinPlayer(player_map, _safe_int(r.player_id)).team_id) = team_id

\* lines 305-306: rank and truncate
\* variant: the requested limit honoured without the cap of 300
MutRankAndCutUncapped(out, limit) ==
    TakeRuns(SortDesc(out, [r \in RowsOf(out) |-> sort_key(r)]), Max(limit, 1))

RankAndCut(out, limit) ==
    TakeRuns(SortDesc(out, [r \in RowsOf(out) |-> sort_key(r)]), Clamp(limit, ListCap))

\* lines 298-306, out being the rows of the loop
ListDone(out, log, limit) == Outcome(RankAndCut(out, limit), log, FALSE, RunLen(out))

\* lines 229-296, kept being the stat rows that get an output row
ListOut(kept, season, player_map, team_map) ==
    MapRuns(kept, [r \in RowsOf(kept) |->
                     ListRow(r, JoinPlayer(player_map, _safe_int(r.player_id)),
                             _safe_int(r.player_id).v, season, team_map)])

\* lines 226-306, after the players fetch
ListJoin(season, position, team_id, stats_rows, player_map, tm, log, limit) ==
    ListDone(ListOut(FilterRuns(stats_rows,
                         [r \in RowsOf(stats_rows) |->
                             ListKeeps(r, player_map, Upper(Strip(OrEmpty(position))), team_id)]),
                     season, player_map, tm.map),
             log \o tm.fetches, limit)

\* lines 217-226: int() of a team_id may raise (line 225)
ListFromPlayers(season, position, team_id, stats_rows, prows, log, limit) ==
    IF \E c \in TeamIdCells(prows) : IntRaises(c) THEN Outcome(<<>>, log, TRUE, 0)
    ELSE ListJoin(season, position, team_id, stats_rows, DictOf(ById(prows)),
                  _team_map({IntOf(c) : c \in TeamIdCells(prows)},
                            Cardinality({IntOf(c) : c \in TeamIdCells(prows)})),
                  log, limit)

\* lines 203-216
ListFromStats(season, position, team_id, stats_rows, log, limit) ==
    IF stats_rows = <<>> THEN Outcome(<<>>, log, FALSE, 0)
    ELSE IF PlayerIds(stats_rows) = {} THEN Outcome(<<>>, log, FALSE, 0)
    ELSE ListFromPlayers(season, position, team_id, stats_rows,
                         SelectPlayersIn(PlayerIds(stats_rows), RunLen(WithPlayerId(stats_rows))),
                         log \o <<Fetch("nfl_players", "id.in", PlayerIds(stats_rows),
                                        RunLen(WithPlayerId(stats_rows)))>>,
                         limit)

\* lines 181-202, tl being the team lookup
ListFromTeam(season, position, tl, limit) ==
    ListFromStats(season, position, tl.id,
                  KeepWithStats(SelectSeasonStats(season, StatsFetchLimit)),
                  tl.fetches \o <<Fetch("nfl_player_season_stats", "season.eq", {}, StatsFetchLimit)>>,
                  limit)

get_players_list(season, position, team, limit) ==
    IF season = NULL THEN Outcome(<<>>, <<>>, FALSE, 0)
    ELSE ListFromTeam(season.v, position, TeamIdOf(team), limit)

-----------------------------------------------------------------------------
(* receiving_season and rushing_season (lines 550-627). *)

\* row cap of the dashboards and of the season summaries (lines 457, 515, 589, 627)
ViewCap == 200

RECURSIVE SumRuns(_, _, _)
\* by_team[t] after the loop of lines 561-563 / 601-603: the stat summed
\* over the rows whose `team or ""` is t
SumRuns(rs, t, stat) ==
    IF rs = <<>> THEN 0
    ELSE (IF OrEmpty(Head(rs).row.team) = t THEN Head(rs).row[stat] * Head(rs).n ELSE 0)
         + SumRuns(Tail(rs), t, stat)

\* lines 570-571 / 610-611
ShareOf(r, scope, stat) ==
    IF SumRuns(scope, OrEmpty(r.team), stat) # 0
    THEN Frac(r[stat], SumRuns(scope, OrEmpty(r.team), stat))
    ELSE NULL

\* positions kept by receiving_season (line 567) and rushing_season (line 607)
ReceivingPositions == {"WR", "TE", "RB"}
RushingPositions == {"RB", "QB", "WR", "TE"}

\* the rows of `rows` whose position is among `positions` (lines 566-568 / 606-608)
OfPositions(rows, positions) ==
    FilterRuns(rows, [r \in RowsOf(rows) |-> Upper(OrEmpty(r.position)) \in positions])

\* the rows the team totals are summed over (lines 560-563 / 600-603):
\* every row the list returned
\* variant: team totals summed over the receiving positions only
MutShareScopeReceivers(rows) == OfPositions(rows, ReceivingPositions)

ShareScope(rows) == rows

\* lines 572-587
ReceivingRow(r, season, scope) ==
    [season |-> season,
     team |-> r.team,
     player_id |-> r.player_id,
     player_name |-> r.player_name,
     position |-> r.position,
     targets |-> r.targets,
     receptions |-> r.receptions,
     rec_yards |-> r.receivingYards,
     team_target_share |-> ShareOf(r, scope, "targets"),
     photoUrl |-> player_photo_url_from_name_team(r.player_name, S(OrEmpty(r.team)))]

\* lines 612-625
RushingRow(r, season, scope) ==
    [season |-> season,
     team |-> r.team,
     player_id |-> r.player_id,
     player_name |-> r.player_name,
     position |-> r.position,
     rush_attempts |-> r.rushAttempts,
     rush_yards |-> r.rushingYards,
     team_rush_share |-> ShareOf(r, scope, "rushAttempts"),
     photoUrl |-> player_photo_url_from_name_team(r.player_name, S(OrEmpty(r.team)))]

\* lines 588-589 / 626-627: rank by the column and truncate
SeasonDone(out, column, got, limit) ==
    Outcome(TakeRuns(SortDesc(out, [x \in RowsOf(out) |-> x[column]]), Clamp(limit, ViewCap)),
            got.fetches, FALSE, got.photos + RunLen(out))

\* lines 564-587, kept being the rows of the list among the positions
ReceivingOut(kept, scope, season) ==
    MapRuns(kept, [r \in RowsOf(kept) |-> ReceivingRow(r, season, scope)])

\* lines 559-589, got being what get_players_list handed back
ReceivingFromList(got, season, limit) ==
    IF got.err THEN got
    ELSE SeasonDone(ReceivingOut(OfPositions(got.rows, ReceivingPositions),
                                 ShareScope(got.rows), season),
                    "targets", got, limit)

receiving_season(season, team, limit) ==
    ReceivingFromList(get_players_list(I(season), NULL, team, StatsFetchLimit), season, limit)

\* lines 604-625
RushingOut(kept, scope, season) ==
    MapRuns(kept, [r \in RowsOf(kept) |-> RushingRow(r, season, scope)])

\* lines 600-627
RushingFromList(got, season, limit) ==
    IF got.err THEN got
    ELSE SeasonDone(RushingOut(OfPositions(got.rows, RushingPositions),
                               ShareScope(got.rows), season),
                    "rush_yards", got, limit)

rushing_season(season, team, limit) ==
    RushingFromList(get_players_list(I(season), NULL, team, StatsFetchLimit), season, limit)

-----------------------------------------------------------------------------
(* receiving_dashboard and rushing_dashboard (lines 434-547). *)

\* row cap of the weekly game-stats fetch (lines 453, 512)
DashFetchLimit == 5000

\* lines 456-457 / 514-515: rank the fetched stat rows by the column and
\* cut them to the display limit (before the join)
DashCut(stats, column, limit) ==
    TakeRuns(SortDesc(stats, [r \in RowsOf(stats) |-> OrZero(r[column])]),
             Clamp(limit, ViewCap))

\* the team ids of lines 463 / 520, as a set
StatTeamIds(stats) ==
    {_safe_int(r.team_id).v : r \in {x \in RowsOf(stats) : _safe_int(x.team_id) # NULL}}

\* lines 471 / 528: the player attached to a stat row of a dashboard
DashPlayer(pmap, pid) == Get(pmap, pid, NoPlayer)

\* `p.get("position_abbreviation") or None`
OrNone(x) == IF Truthy(x) THEN x ELSE NULL

\* the stat rows of a dashboard that get an output row (lines 468-470 / 525-527)
DashKept(stats) == WithPlayerId(stats)

\* lines 474-490
ReceivingDashRow(r, p, season, week, tmap) ==
    [season |-> season,
     week |-> week,
     team |-> Get(tmap, _safe_int(r.team_id), NULL),
     player_id |-> ToString(_safe_int(r.player_id).v),
     player_name |-> NameOf(p, _safe_int(r.player_id).v),
     position |-> OrNone(p.position_abbreviation),
     targets |-> OrZero(r.receiving_targets),
     receptions |-> OrZero(r.receptions),
     rec_yards |-> OrZero(r.receiving_yards),
     photoUrl |-> player_photo_url_from_name_team(NameOf(p, _safe_int(r.player_id).v),
                                                  Get(tmap, _safe_int(r.team_id), NULL))]

\* lines 531-546
RushingDashRow(r, p, season, week, tmap) ==
    [season |-> season,
     week |-> week,
     team |-> Get(tmap, _safe_int(r.team_id), NULL),
     player_id |-> ToString(_safe_int(r.player_id).v),
     player_name |-> NameOf(p, _safe_int(r.player_id).v),
     position |-> OrNone(p.position_abbreviation),
     rush_attempts |-> OrZero(r.rushing_attempts),
     rush_yards |-> OrZero(r.rushing_yards),
     receptions |-> OrZero(r.receptions),
     rec_yards |-> OrZero(r.receiving_yards),
     photoUrl |-> player_photo_url_from_name_team(NameOf(p, _safe_int(r.player_id).v),
                                                  Get(tmap, _safe_int(r.team_id), NULL))]

\* the output rows of a dashboard (lines 466-491 / 523-547)
DashOut(kept, view, season, week, pmap, tmap) ==
    MapRuns(kept, [r \in RowsOf(kept) |->
        IF view = "receiving"
        THEN ReceivingDashRow(r, DashPlayer(pmap, _safe_int(r.player_id)), season, week, tmap)
        ELSE RushingDashRow(r, DashPlayer(pmap, _safe_int(r.player_id)), season, week, tmap)])

\* what a dashboard hands back
DashDone(out, log) == Outcome(out, log, FALSE, RunLen(out))

\* lines 459-491 / 517-547, stats being the ranked and cut stat rows
DashFromStats(stats, view, season, week, tm, log) ==
    DashDone(DashOut(DashKept(stats), view, season, week,
                     DictOf(ById(SelectPlayersIn(PlayerIds(stats), Cardinality(PlayerIds(stats))))),
                     tm.map),
             log \o <<Fetch("nfl_players", "id.in", PlayerIds(stats), Cardinality(PlayerIds(stats)))>>
                 \o tm.fetches)

\* the filters of lines 443-448 / 502-507
DashFilters(season, week, tid) ==
    [season |-> season, week |-> I(week), team_id |-> tid, player_id |-> NULL, regular |-> TRUE]

\* lines 449-464 / 508-521, tl being the team lookup
DashFromTeam(view, season, week, tl, stats) ==
    DashFromStats(stats, view, season, week,
                  _team_map(StatTeamIds(stats), Cardinality(StatTeamIds(stats))),
                  tl.fetches \o <<Fetch("nfl_player_game_stats", "season.eq", {}, DashFetchLimit)>>)

\* the two dashboards differ in the ranking column and in the row they build
Dashboard(view, column, season, week, tl, limit) ==
    DashFromTeam(view, season, week, tl,
                 DashCut(SelectGameStats(DashFilters(season, week, tl.id), FALSE, DashFetchLimit),
                         column, limit))

receiving_dashboard(season, week, team, limit) ==
    Dashboard("receiving", "receiving_targets", season, week, TeamIdOf(team), limit)

rushing_dashboard(season, week, team, limit) ==
    Dashboard("rushing", "rushing_yards", season, week, TeamIdOf(team), limit)

-----------------------------------------------------------------------------
(* get_player_game_logs (lines 309-431). *)

\* row cap of the game-log fetch (line 339)
LogFetchLimit == 400

\* game_map.get(gid, {}): the empty dict answers None for every column
NoGame == [id |-> NULL, home_team_id |-> NULL, visitor_team_id |-> NULL]

\* lines 387-395: [location, opp] of a stat row
\* variant: the ids compared without testing that they are present
MutLocationNoDefault(tid, ht, vt, home_abbr, away_abbr) ==
    IF tid = ht THEN [location |-> "home", opp |-> away_abbr]
    ELSE [location |-> "away", opp |-> home_abbr]

Location(tid, ht, vt, home_abbr, away_abbr) ==
    IF tid # NULL /\ ht # NULL /\ vt # NULL
    THEN IF tid = ht THEN [location |-> "home", opp |-> away_abbr]
         ELSE [location |-> "away", opp |-> home_abbr]
    ELSE [location |-> "home", opp |-> NULL]

\* line 344: the id expressions whose int() builds game_ids
GameIdCells(rows) ==
    {r.game_id : r \in {x \in RowsOf(rows) : x.game_id # NULL /\ x.game_id # S("")}}

\* lines 316-318: the player id the log is asked for, None when unusable
\* variant: an empty player_id read as 0
MutLogPlayerIdOrZero(player_id) ==
    IF player_id = S("") THEN I(0) ELSE _safe_int(player_id)

LogPlayerId(player_id) == _safe_int(player_id)

\* lines 352-369: the team ids of the fetched games and of the stat rows
LogTeamIds(rows, grows) ==
    {x.v : x \in ({_safe_int(g[2].home_team_id) : g \in {ById(grows)[i] : i \in DOMAIN ById(grows)}}
                  \cup {_safe_int(g[2].visitor_team_id) : g \in {ById(grows)[i] : i \in DOMAIN ById(grows)}}
                  \cup {_safe_int(r.team_id) : r \in RowsOf(rows)}) \ {NULL}}

\* lines 375-429: the output row of stat row r, g being its game
LogRow(r, g, season, tmap) ==
    [season |-> IF OrZero(r.season) # 0 THEN OrZero(r.season) ELSE season,
     week |-> OrZero(r.week),
     game_id |-> ToString(_safe_int(r.game_id).v),
     team |-> Get(tmap, _safe_int(r.team_id), NULL),
     opponent |-> Location(_safe_int(r.team_id), _safe_int(g.home_team_id),
                           _safe_int(g.visitor_team_id),
                           Get(tmap, _safe_int(g.home_team_id), NULL),
                           Get(tmap, _safe_int(g.visitor_team_id), NULL)).opp,
     home_team |-> Get(tmap, _safe_int(g.home_team_id), NULL),
     away_team |-> Get(tmap, _safe_int(g.visitor_team_id), NULL),
     location |-> Location(_safe_int(r.team_id), _safe_int(g.home_team_id),
                           _safe_int(g.visitor_team_id),
                           Get(tmap, _safe_int(g.home_team_id), NULL),
                           Get(tmap, _safe_int(g.visitor_team_id), NULL)).location,
     is_postseason |-> r.postseason,
     targets |-> OrZero(r.receiving_targets),
     receptions |-> OrZero(r.receptions),
     rec_yards |-> OrZero(r.receiving_yards),
     rush_attempts |-> OrZero(r.rushing_attempts),
     rush_yards |-> OrZero(r.rushing_yards)]

\* the stat rows of the log that get an output row (lines 375-377)
LogKept(rows) ==
    FilterRuns(rows, [r \in RowsOf(rows) |-> _safe_int(r.game_id) # NULL])

\* lines 373-431
LogOut(kept, game_map, season, tmap) ==
    MapRuns(kept, [r \in RowsOf(kept) |->
                     LogRow(r, Get(game_map, _safe_int(r.game_id), NoGame), season, tmap)])

\* lines 371-431
LogJoin(rows, grows, season, tm, log) ==
    Outcome(LogOut(LogKept(rows), DictOf(ById(grows)), season, tm.map),
            log \o tm.fetches, FALSE, 0)

\* lines 345-371, game_ids being the ids of line 344
LogFromGames(rows, game_ids, grows, season, log) ==
    LogJoin(rows, grows, season,
            _team_map(LogTeamIds(rows, grows), Cardinality(LogTeamIds(rows, grows))),
            log \o <<Fetch("nfl_games", "id.in", game_ids, Cardinality(game_ids))>>)

\* lines 341-350: int() of a game_id may raise (line 344)
LogFromRows(rows, season, log) ==
    IF rows = <<>> THEN Outcome(<<>>, log, FALSE, 0)
    ELSE IF \E c \in GameIdCells(rows) : IntRaises(c) THEN Outcome(<<>>, log, TRUE, 0)
    ELSE LogFromGames(rows, {IntOf(c) : c \in GameIdCells(rows)},
                      SelectGamesIn({IntOf(c) : c \in GameIdCells(rows)},
                                    Cardinality({IntOf(c) : c \in GameIdCells(rows)})),
                      season, log)

\* the filters of lines 321-326
LogFilters(pid, season, include_postseason) ==
    [season |-> season, week |-> NULL, team_id |-> NULL,
     player_id |-> pid, regular |-> ~include_postseason]

get_player_game_logs(player_id, season, include_postseason) ==
    IF LogPlayerId(player_id) = NULL THEN Outcome(<<>>, <<>>, FALSE, 0)
    ELSE LogFromRows(SelectGameStats(LogFilters(LogPlayerId(player_id), season, include_postseason),
                                     TRUE, LogFetchLimit),
                     season,
                     <<Fetch("nfl_player_game_stats", "player_id.eq", {}, LogFetchLimit)>>)

-----------------------------------------------------------------------------
(* The contents of the store the invocations run against. *)

Team(id, abbr) == [id |-> id, abbreviation |-> abbr]

\* a stored team id that is not an integer, and a team with no abbreviation
TeamsFull == << Team(I(1), S("KC")), Team(I(2), S("sf")),
                Team(I(3), NULL), Team(S("abc"), S("XX")) >>
\* a store in which "KC" (id 1) is missing
TeamsNoKC == << Team(I(2), S("sf")) >>
TeamTables == {TeamsFull, TeamsNoKC}

Player(id, first, last, pos, team_id) ==
    [id |-> id, first_name |-> first, last_name |-> last,
     position_abbreviation |-> pos, team_id |-> team_id]

\* no player row has id 9
PlayerTable ==
    << Player(I(1), S("Al"), S("Bo"), S("WR"), I(1)),
       Player(I(2), S("Cy"), S(""), S("rb "), S("1")),
       Player(I(3), NULL, NULL, S("QB"), I(1)),
       Player(I(4), S("O'Dee"), NULL, S("TE"), I(2)),
       Player(I(5), S("'"), NULL, S("K"), NULL),
       Player(I(6), S("Al"), S("Bo"), S("WR"), S("abc")) >>

Game(id, home, visitor) == [id |-> id, home_team_id |-> home, visitor_team_id |-> visitor]

\* no game row has id 11
GameTable == << Game(I(10), I(1), I(2)), Game(I(12), I(2), NULL), Game(I(13), I(2), I(3)) >>

SeasonStat(season, pid, pa, pc, ra, ry, rec, recy, tg) ==
    [player_id |-> pid, season |-> I(season), postseason |-> FALSE, games_played |-> I(1),
     passing_attempts |-> pa, passing_completions |-> pc,
     rushing_attempts |-> ra, rushing_yards |-> ry,
     receptions |-> rec, receiving_yards |-> recy, receiving_targets |-> tg]

SeasonRows ==
    { SeasonStat(2023, I(1),   I(0), I(0), I(0), I(0), I(2), I(5), I(3)),      \* a WR of KC
      SeasonStat(2023, S("2"), NULL, NULL, I(2), I(3), I(1), I(9), I(1)),      \* an RB of KC
      SeasonStat(2023, I(3),   I(4), I(2), I(1), I(1), I(0), I(0), I(1)),      \* a QB of KC
      SeasonStat(2023, I(4),   I(0), I(0), I(0), I(0), I(1), I(4), I(2)),      \* a TE of SF
      SeasonStat(2023, I(5),   I(0), I(0), I(1), I(7), I(0), I(0), I(0)),      \* a K without team
      SeasonStat(2023, I(6),   I(0), I(0), I(0), I(0), I(1), I(2), I(1)),      \* team_id "abc"
      SeasonStat(2023, I(9),   I(0), I(0), I(0), I(0), I(1), I(6), I(5)),      \* no player row
      SeasonStat(2023, NULL,   I(0), I(0), I(2), I(8), I(0), I(0), I(9)),      \* no player_id
      SeasonStat(2023, I(1),   I(0), NULL, S(""), I(9), S("abc"), I(9), I(0)), \* no recorded stat
      SeasonStat(2022, I(1),   I(0), I(0), I(0), I(0), I(2), I(7), I(7)) }     \* another season

\* the stat rows that may come in a long run
SeasonBigRows ==
    { SeasonStat(2023, I(1), I(0), I(0), I(0), I(0), I(2), I(5), I(3)),
      SeasonStat(2023, I(5), I(0), I(0), I(1), I(7), I(0), I(0), I(0)) }

SeasonRuns == {Run(r, 1) : r \in SeasonRows} \cup {Run(r, BigRun) : r \in SeasonBigRows}

GameStat(pid, gid, tid, week, post, ra, ry, rec, recy, tg) ==
    [player_id |-> pid, game_id |-> gid, team_id |-> tid, season |-> I(2023),
     week |-> I(week), postseason |-> post,
     rushing_attempts |-> ra, rushing_yards |-> ry,
     receptions |-> rec, receiving_yards |-> recy, receiving_targets |-> tg]

GameRows ==
    { GameStat(I(1), I(10), I(1), 5, FALSE, I(0), I(0), I(2), I(5), I(3)),       \* at home
      GameStat(I(2), I(10), I(2), 5, FALSE, I(2), I(6), I(0), I(0), I(1)),       \* away
      GameStat(NULL, I(10), I(1), 5, FALSE, I(3), I(9), I(3), I(9), I(9)),       \* no player_id
      GameStat(I(9), I(11), I(1), 5, FALSE, I(1), I(2), I(1), I(2), I(2)),       \* no player, no game
      GameStat(I(1), S("abc"), I(1), 5, FALSE, I(0), I(0), I(1), I(1), I(1)),    \* game_id "abc"
      GameStat(I(1), NULL, NULL, 5, FALSE, I(0), NULL, S(""), I(0), I(0)),       \* no stat, no ids
      GameStat(I(1), I(12), I(3), 6, TRUE, I(1), I(4), I(1), I(4), I(4)),        \* visitor unknown
      GameStat(I(2), I(13), I(1), 5, FALSE, I(0), I(1), I(0), I(0), I(0)) }      \* neither side, no stat

GameBigRows == { GameStat(I(1), I(10), I(1), 5, FALSE, I(0), I(0), I(2), I(5), I(3)) }

GameRuns == {Run(r, 1) : r \in GameRows} \cup {Run(r, BigRun) : r \in GameBigRows}

\* the sequences over S of length at most n
SeqsUpTo(set, n) == UNION {[1..k -> set] : k \in 0..n}

-----------------------------------------------------------------------------
(* State machine: a process in which the views are invoked one after the   *)
(* other.  The store is read-only; the only state the process itself keeps *)
(* between invocations would be the resolver's cached mapping file.        *)

Idle == [op |-> "idle"]

\* a season store
InitSeason ==
    /\ seasonStats \in SeqsUpTo(SeasonRuns, MaxRows)
    /\ gameStats = <<>>
    /\ teams \in TeamTables
    /\ csvFile = "ok"
    /\ pandasOk = TRUE

\* a weekly store
InitGame ==
    /\ seasonStats = <<>>
    /\ gameStats \in SeqsUpTo(GameRuns, MaxRows)
    /\ teams \in TeamTables
    /\ csvFile = "ok"
    /\ pandasOk = TRUE

\* a process whose mapping file or pandas may be missing
InitFile ==
    /\ seasonStats \in {<<>>, <<Run(CHOOSE r \in SeasonBigRows : r.player_id = I(1), 1)>>}
    /\ gameStats = <<>>
    /\ teams = TeamsFull
    /\ csvFile \in {"absent", "unparsable", "ok"}
    /\ pandasOk \in BOOLEAN

InitProcess ==
    /\ players = PlayerTable
    /\ games = GameTable
    /\ call = Idle
    /\ result = <<>>
    /\ err = FALSE
    /\ fetches = <<>>
    /\ csvAttempts = 0
    /\ csvReads = 0
    /\ firstLoad = "none"

Init == (InitSeason \/ InitGame \/ InitFile) /\ InitProcess

\* the arguments the views are invoked with
SeasonArgs == {NULL, I(2023)}
PositionArgs == {NULL, S("wr")}
TeamArgs == {NULL, S("KC"), S("sf"), S("XX")}
LimitArgs == {0, 2, 10000}
PlayerIdArgs == {NULL, S(""), S("abc"), S("1"), I(2)}
NameArgs == {"Al Bo", "O'Dee", "'"}

\* an invocation starts when none is running, while the load count is in bounds
CanCall == call = Idle /\ csvAttempts < MaxLoads

\* the invocation ran to its end with outcome o
Ran(c, o) ==
    /\ call' = c
    /\ result' = o.rows
    /\ err' = o.err
    /\ fetches' = o.fetches
    /\ PhotoEffect(o.photos)
    /\ UNCHANGED <<teams, players, games, seasonStats, gameStats, csvFile, pandasOk>>

GetPlayersList ==
    /\ CanCall
    /\ \E season \in SeasonArgs, position \in PositionArgs, team \in TeamArgs, limit \in LimitArgs :
          Ran([op |-> "get_players_list", season |-> season, position |-> position,
               team |-> team, limit |-> limit],
              get_players_list(season, position, team, limit))

GetPlayerGameLogs ==
    /\ CanCall
    /\ \E player_id \in PlayerIdArgs, include_postseason \in BOOLEAN :
          Ran([op |-> "get_player_game_logs", player_id |-> player_id, season |-> 2023,
               include_postseason |-> include_postseason],
              get_player_game_logs(player_id, 2023, include_postseason))

ReceivingDashboard ==
    /\ CanCall
    /\ \E team \in TeamArgs, limit \in LimitArgs :
          Ran([op |-> "receiving_dashboard", season |-> 2023, week |-> 5,
               team |-> team, limit |-> limit],
              receiving_dashboard(2023, 5, team, limit))

RushingDashboard ==
    /\ CanCall
    /\ \E team \in TeamArgs, limit \in LimitArgs :
          Ran([op |-> "rushing_dashboard", season |-> 2023, week |-> 5,
               team |-> team, limit |-> limit],
              rushing_dashboard(2023, 5, team, limit))

ReceivingSeason ==
    /\ CanCall
    /\ \E team \in TeamArgs, limit \in LimitArgs :
          Ran([op |-> "receiving_season", season |-> 2023, team |-> team, limit |-> limit],
              receiving_season(2023, team, limit))

RushingSeason ==
    /\ CanCall
    /\ \E team \in TeamArgs, limit \in LimitArgs :
          Ran([op |-> "rushing_season", season |-> 2023, team |-> team, limit |-> limit],
              rushing_season(2023, team, limit))

\* a direct call of the resolver; its URL (or None) is the one row returned
PlayerPhotoUrl ==
    /\ CanCall
    /\ \E name \in NameArgs, team \in {NULL, S("kc")} :
          Ran([op |-> "player_photo_url_from_name_team", name |-> name, team |-> team],
              Outcome(<<player_photo_url_from_name_team(name, team)>>, <<>>, FALSE, 1))

\* the caller takes the result
Return ==
    /\ call # Idle
    /\ call' = Idle
    /\ result' = <<>>
    /\ err' = FALSE
    /\ fetches' = <<>>
    /\ UNCHANGED <<teams, players, games, seasonStats, gameStats, csvFile, pandasOk,
                   csvAttempts, csvReads, firstLoad>>

\* the environment creates, removes or damages data/db_playerids.csv
FileChange ==
    /\ \E f \in {"absent", "unparsable", "ok"} \ {csvFile} : csvFile' = f
    /\ UNCHANGED <<teams, players, games, seasonStats, gameStats, pandasOk,
                   call, result, err, fetches, csvAttempts, csvReads, firstLoad>>

Next ==
    \/ GetPlayersList
    \/ GetPlayerGameLogs
    \/ ReceivingDashboard
    \/ RushingDashboard
    \/ ReceivingSeason
    \/ RushingSeason
    \/ PlayerPhotoUrl
    \/ Return

\* the process with a mapping file that does not change while it runs
Spec == Init /\ [][Next]_vars

\* the process with a mapping file that may change under it
NextFile == Next \/ FileChange
SpecFile == Init /\ [][NextFile]_vars

-----------------------------------------------------------------------------
(* What the views promise, stated on the invocation that last ran.  The    *)
(* store is described here by its tables, not by the pipelines' own steps. *)

SeasonViews == {"receiving_season", "rushing_season"}
DashViews == {"receiving_dashboard", "rushing_dashboard"}
LimitedViews == {"get_players_list"} \cup SeasonViews \cup DashViews

\* the row cap the contract names for each limited view
CapOf(op) == IF op = "get_players_list" THEN 300 ELSE 200

\* the player table as a lookup: whether an id has a row, and that row
HasPlayer(pid) == \E i \in 1..Len(players) : players[i].id = I(pid)
PlayerOf(pid) == players[CHOOSE i \in 1..Len(players) : players[i].id = I(pid)]

\* the player ids of the store, as output rows carry them
KnownPlayerIds ==
    {ToString(players[i].id.v) : i \in {j \in 1..Len(players) : players[j].id.t = "int"}}

\* a value that counts as a strictly positive counter
Positive(x) == OrZero(x) > 0

\* the season-stat row s qualifies for the list of season 2023 asked with
\* position pos ("" for any) and team id tid (NULL for any)
ListQualifies(s, pos, tid) ==
    /\ s.season = I(2023) /\ ~s.postseason
    /\ \E c \in {s.passing_attempts, s.passing_completions, s.rushing_attempts,
                 s.receptions, s.receiving_targets} : Positive(c)
    /\ _safe_int(s.player_id) # NULL
    /\ HasPlayer(_safe_int(s.player_id).v)
    /\ pos = "" \/ PosOf(PlayerOf(_safe_int(s.player_id).v)) = pos
    /\ tid = NULL \/ _safe_int(PlayerOf(_safe_int(s.player_id).v).team_id) = tid

\* the positions a season summary keeps
PositionsOf(op) == IF op = "receiving_season" THEN {"WR", "TE", "RB"}
                   ELSE {"RB", "QB", "WR", "TE"}

\* some stored row qualifies for the output of the invocation that ran
SomeRowQualifies ==
    CASE call.op = "get_players_list" ->
           /\ call.season # NULL
           /\ \E s \in RowsOf(seasonStats) :
                 ListQualifies(s, Upper(Strip(OrEmpty(call.position))), TeamIdOf(call.team).id)
      [] call.op \in SeasonViews ->
           \E s \in RowsOf(seasonStats) :
              /\ ListQualifies(s, "", TeamIdOf(call.team).id)
              /\ PosOf(PlayerOf(_safe_int(s.player_id).v)) \in PositionsOf(call.op)
      [] call.op \in DashViews ->
           \E g \in RowsOf(gameStats) :
              /\ GameStatMatches(g, DashFilters(2023, 5, TeamIdOf(call.team).id))
              /\ _safe_int(g.player_id) # NULL
      [] OTHER -> FALSE

\* C1: every limited view returns at most min(max(limit, 1), cap) rows (cap
\* 300 for the list, 200 for the dashboards and season summaries), and with
\* limit = 0 it returns at least one row whenever a fetched row qualifies
\* for its output.
C1_LimitClamp ==
    (call.op \in LimitedViews /\ ~err) =>
        /\ RunLen(result) <= Min(Max(call.limit, 1), CapOf(call.op))
        /\ (call.limit = 0 /\ SomeRowQualifies) => RunLen(result) >= 1

\* the upper half of C1 alone (it holds; the lower half is what breaks)
C1_AtMost ==
    (call.op \in LimitedViews /\ ~err) =>
        RunLen(result) <= Min(Max(call.limit, 1), CapOf(call.op))

-----------------------------------------------------------------------------
(* C2: the team filter of the weekly dashboards. *)

\* the teams rows carrying abbreviation T, and the one the lookup returns
Named(T) == {i \in 1..Len(teams) : teams[i].abbreviation = T}
FirstNamed(T) == teams[CHOOSE i \in Named(T) : \A j \in Named(T) : i <= j]

\* T names a team whose id is a usable integer
Resolves(T) == Named(T) # {} /\ _safe_int(FirstNamed(T).id) # NULL

\* what the dashboard that ran returns when asked without a team
Unfiltered ==
    IF call.op = "receiving_dashboard"
    THEN receiving_dashboard(call.season, call.week, NULL, call.limit).rows
    ELSE rushing_dashboard(call.season, call.week, NULL, call.limit).rows

\* C2 as claimed: a dashboard called with a non-empty team T never raises
\* and returns only rows whose team is T (compared in upper case), whatever
\* the teams table holds.
C2_TeamFilterOriginal ==
    (call.op \in DashViews /\ Truthy(call.team)) =>
        /\ ~err
        /\ \A r \in RowsOf(result) : r.team = S(Upper(call.team.s))

\* C2, amended: a dashboard called with a non-empty team T never raises;
\* when T names a teams row with a usable id, every returned row has the
\* upper-cased T as its team, and the result is empty when no stat row of
\* the week belongs to that team; when T names no such row, the filter is
\* dropped and the result is that of the call without a team.
C2_TeamFilter ==
    (call.op \in DashViews /\ Truthy(call.team)) =>
        /\ ~err
        /\ Resolves(call.team) =>
              /\ \A r \in RowsOf(result) : r.team = S(Upper(call.team.s))
              /\ (\A g \in RowsOf(gameStats) : g.team_id # FirstNamed(call.team).id)
                     => result = <<>>
        /\ ~Resolves(call.team) => result = Unfiltered

\* a dashboard asked for "KC" returned rows while the week also holds a row
\* of another team that the unfiltered dashboard shows
C2_TeamFilterWitness ==
    /\ call.op \in DashViews
    /\ call.team = S("KC")
    /\ Resolves(call.team)
    /\ result # <<>>
    /\ \E r \in RowsOf(Unfiltered) : r.team # S("KC")

-----------------------------------------------------------------------------
(* C3: fact rows whose player has no row in nfl_players. *)

\* the stat rows of the week the dashboard that ran is asked for
WeekRows ==
    FilterRuns(gameStats,
        [g \in RowsOf(gameStats) |->
            GameStatMatches(g, DashFilters(call.season, call.week, TeamIdOf(call.team).id))])

C3_ListDropWitness ==
    /\ call.op = "get_players_list" /\ ~err /\ result # <<>>
    /\ \E s \in RowsOf(seasonStats) :
          /\ s.season = I(2023) /\ Positive(s.receiving_targets)
          /\ _safe_int(s.player_id) # NULL /\ ~HasPlayer(_safe_int(s.player_id).v)

-----------------------------------------------------------------------------
(* C4: the team share of the season summaries. *)

\* the rows get_players_list hands to the season summary that ran
ListGot == get_players_list(I(call.season), NULL, call.team, 8000).rows

\* the stat a summary shares out, as the list names it and as the summary
\* names it, and the share column
ListStat == IF call.op = "receiving_season" THEN "targets" ELSE "rushAttempts"
ViewStat == IF call.op = "receiving_season" THEN "targets" ELSE "rush_attempts"
ShareColumn == IF call.op = "receiving_season" THEN "team_target_share" ELSE "team_rush_share"

\* row r's share is its stat over total, null exactly when total is zero
ShareIs(r, total) ==
    IF total = 0 THEN r[ShareColumn] = NULL
    ELSE /\ r[ShareColumn] # NULL
         /\ r[ShareColumn].num * total = r[ViewStat] * r[ShareColumn].den

\* C4 as claimed: the share of every returned row is its stat divided by
\* the stat summed over the rows of its team in the position-filtered set,
\* null exactly when that sum is zero.
C4_ShareOriginal ==
    (call.op \in SeasonViews /\ ~err) =>
        \A r \in RowsOf(result) :
            ShareIs(r, SumRuns(OfPositions(ListGot, PositionsOf(call.op)),
                               OrEmpty(r.team), ListStat))

\* C4, amended: the share of every returned row is its stat divided by the
\* stat summed over all rows of its team (null and empty team counting as
\* one team) that get_players_list returned, of any position; it is null
\* exactly when that sum is zero, and the stats of the returned rows of one
\* team add up to at most that sum.
C4_Share ==
    (call.op \in SeasonViews /\ ~err) =>
        LET got == ListGot IN
        \A r \in RowsOf(result) :
            /\ ShareIs(r, SumRuns(got, OrEmpty(r.team), ListStat))
            /\ SumRuns(result, OrEmpty(r.team), ViewStat)
                   <= SumRuns(got, OrEmpty(r.team), ListStat)

\* a summary returned a row with a share while the list holds a row of the
\* same team, outside the summary's positions, that adds to the team total
C4_ShareWitness ==
    /\ call.op \in SeasonViews /\ ~err
    /\ \E r \in RowsOf(result) :
          /\ r[ShareColumn] # NULL
          /\ \E x \in RowsOf(ListGot) :
                /\ OrEmpty(x.team) = OrEmpty(r.team)
                /\ Upper(OrEmpty(x.position)) \notin PositionsOf(call.op)
                /\ x[ListStat] > 0

-----------------------------------------------------------------------------
(* C5: the load of the mapping file, over the calls of one process. *)

\* C5: in one process the mapping file is read at most once; when the
\* first load found it absent or unparsable, the load is never tried again
\* and every call of the resolver returns null, also after the file has
\* become available.
C5_LoadOnce ==
    /\ csvReads <= 1
    /\ firstLoad = "failed" =>
          /\ csvAttempts <= 1
          /\ call.op = "player_photo_url_from_name_team" => result = <<NULL>>

-----------------------------------------------------------------------------
(* C6: ids that fail integer coercion. *)

Pipelines == LimitedViews \cup {"get_player_game_logs"}

\* C6: no pipeline raises because of an id that fails integer coercion:
\* whatever ids the fetched rows carry, the pipeline returns a result.
C6_NoRaise == call.op \in Pipelines => ~err

-----------------------------------------------------------------------------
(* C7: stat rows without a recorded stat. *)

\* none of the counters of a stat row is strictly positive
NoSeasonCounter(s) ==
    ~\E c \in {s.passing_attempts, s.passing_completions, s.rushing_attempts,
               s.receptions, s.receiving_targets} : Positive(c)
NoGameCounter(g) ==
    ~\E c \in {g.rushing_attempts, g.receptions, g.receiving_targets} : Positive(c)

\* output row r of the view that ran carries the figures of season-stat row s
FiguresOf(r, s) ==
    CASE call.op = "get_players_list" ->
           /\ r.targets = OrZero(s.receiving_targets)
           /\ r.receptions = OrZero(s.receptions)
           /\ r.receivingYards = OrZero(s.receiving_yards)
           /\ r.rushAttempts = OrZero(s.rushing_attempts)
           /\ r.rushingYards = OrZero(s.rushing_yards)
           /\ r.passingAttempts = OrZero(s.passing_attempts)
           /\ r.passingCompletions = OrZero(s.passing_completions)
      [] call.op = "receiving_season" ->
           /\ r.targets = OrZero(s.receiving_targets)
           /\ r.receptions = OrZero(s.receptions)
           /\ r.rec_yards = OrZero(s.receiving_yards)
      [] call.op = "rushing_season" ->
           /\ r.rush_attempts = OrZero(s.rushing_attempts)
           /\ r.rush_yards = OrZero(s.rushing_yards)

\* the stat rows the game log that ran asks the store for
LogRows ==
    FilterRuns(gameStats,
        [g \in RowsOf(gameStats) |->
            GameStatMatches(g, LogFilters(_safe_int(call.player_id), call.season,
                                          call.include_postseason))])

\* C7: every row the list and the season summaries return carries the
\* figures of a season-stat row of that player with a strictly positive
\* counter; the dashboards and the game log return the rows without one
\* too (when the row cap does not cut them off).
C7_HasStats ==
    /\ (call.op \in {"get_players_list"} \cup SeasonViews /\ ~err) =>
          \A r \in RowsOf(result) :
              \E s \in RowsOf(seasonStats) :
                 /\ s.season = I(2023) /\ ~s.postseason
                 /\ ~NoSeasonCounter(s)
                 /\ _safe_int(s.player_id) # NULL
                 /\ r.player_id = ToString(_safe_int(s.player_id).v)
                 /\ FiguresOf(r, s)
    /\ (call.op \in DashViews /\ RunLen(WeekRows) <= Min(Max(call.limit, 1), 200)) =>
          \A g \in RowsOf(WeekRows) :
              (NoGameCounter(g) /\ _safe_int(g.player_id) # NULL) =>
                  \E r \in RowsOf(result) :
                     /\ r.player_id = ToString(_safe_int(g.player_id).v)
                     /\ r.receptions = 0
                     /\ r.rec_yards = OrZero(g.receiving_yards)
    /\ (call.op = "get_player_game_logs" /\ ~err /\ _safe_int(call.player_id) # NULL
            /\ RunLen(LogRows) <= 400) =>
          \A g \in RowsOf(LogRows) :
              (NoGameCounter(g) /\ _safe_int(g.game_id) # NULL) =>
                  \E r \in RowsOf(result) :
                     /\ r.game_id = ToString(_safe_int(g.game_id).v)
                     /\ r.targets = 0 /\ r.receptions = 0 /\ r.rush_attempts = 0

\* the list returned rows from a season that also holds, for a player with
\* a player row, a stat row without a positive counter
C7_HasStatsWitness ==
    /\ call.op = "get_players_list" /\ ~err /\ result # <<>>
    /\ \E s \in RowsOf(seasonStats) :
          /\ s.season = I(2023) /\ NoSeasonCounter(s)
          /\ _safe_int(s.player_id) # NULL /\ HasPlayer(_safe_int(s.player_id).v)

\* a dashboard and a game log that returned a row without a positive counter
C7_DashKeepsWitness ==
    /\ call.op \in DashViews
    /\ \E r \in RowsOf(result) : r.receptions = 0 /\ r.rec_yards = 0 /\ r.player_id = "1"
    /\ \E g \in RowsOf(WeekRows) : NoGameCounter(g) /\ _safe_int(g.player_id) # NULL
C7_LogKeepsWitness ==
    /\ call.op = "get_player_game_logs" /\ ~err
    /\ \E r \in RowsOf(result) : r.targets = 0 /\ r.receptions = 0 /\ r.rush_attempts = 0

-----------------------------------------------------------------------------
(* C8: the ranking of the list. *)

\* the sort key as the contract states it, of an output row and of the
\* season-stat row it is built from
KeyOfRow(r) ==
    IF r.position \in {S("WR"), S("TE")} THEN r.receivingYards ELSE r.rushingYards
KeyOfStat(s) ==
    IF PosOf(PlayerOf(_safe_int(s.player_id).v)) \in {"WR", "TE"}
    THEN OrZero(s.receiving_yards) ELSE OrZero(s.rushing_yards)

\* the stored stat rows that qualify for the list that ran
Qualifying ==
    FilterRuns(seasonStats,
        [s \in RowsOf(seasonStats) |->
            ListQualifies(s, Upper(Strip(OrEmpty(call.position))), TeamIdOf(call.team).id)])

\* how many of the rows rs have a key of at least k; key maps a row to its key
AtLeast(rs, key, k) == RunLen(FilterRuns(rs, [x \in RowsOf(rs) |-> key[x] >= k]))

\* C8: the list comes in non-increasing order of the sort key (receivingYards
\* for WR and TE, rushingYards otherwise), and it holds the rows with the
\* largest keys among all qualifying rows: as many as the clamped limit
\* allows, and for every key as many rows of at least that key as qualify
\* (or all the list's rows).
C8_Order ==
    (call.op = "get_players_list" /\ call.season # NULL /\ ~err) =>
        LET all == Qualifying IN
        /\ \A i, j \in 1..Len(result) :
              i < j => KeyOfRow(result[i].row) >= KeyOfRow(result[j].row)
        /\ RunLen(result) = Min(RunLen(all), Min(Max(call.limit, 1), 300))
        /\ \A q \in RowsOf(all) :
              AtLeast(result, [r \in RowsOf(result) |-> KeyOfRow(r)], KeyOfStat(q))
                  = Min(RunLen(result),
                        AtLeast(all, [x \in RowsOf(all) |-> KeyOfStat(x)], KeyOfStat(q)))

\* the list returned a WR or TE ahead of a player of another position with
\* a smaller key, and the limit cut a qualifying row off
C8_OrderWitness ==
    /\ call.op = "get_players_list" /\ ~err
    /\ Len(result) >= 1
    /\ RunLen(result) < RunLen(Qualifying)
    /\ \E q \in RowsOf(Qualifying) :
          /\ PosOf(PlayerOf(_safe_int(q.player_id).v)) \notin {"WR", "TE"}
          /\ KeyOfStat(q) < KeyOfRow(result[1].row)
    /\ result[1].row.position \in {S("WR"), S("TE")}

\* the list returned rows of both kinds of position in order
C8_MixedWitness ==
    /\ call.op = "get_players_list" /\ ~err
    /\ Len(result) >= 2
    /\ result[1].row.position \in {S("WR"), S("TE")}
    /\ result[2].row.position \notin {S("WR"), S("TE")}
    /\ KeyOfRow(result[1].row) > KeyOfRow(result[2].row)

-----------------------------------------------------------------------------
(* C9: location and opponent in the game log. *)

\* the fetched stat rows the game log builds its rows from, in week order
LogSource ==
    LogKept(SelectGameStats(LogFilters(_safe_int(call.player_id), call.season,
                                       call.include_postseason), TRUE, 400))

\* the games table as a lookup: the home and visitor ids of a stat row's game
HasGame(g) == \E i \in 1..Len(games) : games[i].id = _safe_int(g.game_id)
GameOf(g) == games[CHOOSE i \in 1..Len(games) : games[i].id = _safe_int(g.game_id)]
HomeId(g) == IF HasGame(g) THEN _safe_int(GameOf(g).home_team_id) ELSE NULL
VisitorId(g) == IF HasGame(g) THEN _safe_int(GameOf(g).visitor_team_id) ELSE NULL

\* the teams table as a lookup: the upper-cased abbreviation of a team id
AbbrOf(id) ==
    IF \E i \in 1..Len(teams) : teams[i].id = id
    THEN S(Upper(OrEmpty(teams[CHOOSE i \in 1..Len(teams) : teams[i].id = id].abbreviation)))
    ELSE NULL

\* output row r is at home against the visitor / away at the home team
AtHome(r, g) == r.location = "home" /\ r.opponent = AbbrOf(VisitorId(g))
Away(r, g) == r.location = "away" /\ r.opponent = AbbrOf(HomeId(g))

\* C9 as claimed: a row whose team_id equals the game's home team id is at
\* home against the visitor, and every other row is away at the home team.
C9_LocationOriginal ==
    (call.op = "get_player_game_logs" /\ _safe_int(call.player_id) # NULL /\ ~err) =>
        /\ Len(result) = Len(LogSource)
        /\ \A i \in 1..Len(result) :
              IF _safe_int(LogSource[i].row.team_id) = HomeId(LogSource[i].row)
              THEN AtHome(result[i].row, LogSource[i].row)
              ELSE Away(result[i].row, LogSource[i].row)

\* C9, amended: when the row's team_id and the game's home and visitor ids
\* are all known, the row is at home against the visitor if its team_id is
\* the home id and away at the home team otherwise; when one of the three
\* is missing (no usable team_id, game not found, an id of the game null),
\* location is "home" and opponent is null.
C9_Location ==
    (call.op = "get_player_game_logs" /\ _safe_int(call.player_id) # NULL /\ ~err) =>
        LET src == LogSource IN
        /\ Len(result) = Len(src)
        /\ \A i \in 1..Len(result) :
              IF /\ _safe_int(src[i].row.team_id) # NULL
                 /\ HomeId(src[i].row) # NULL
                 /\ VisitorId(src[i].row) # NULL
              THEN IF _safe_int(src[i].row.team_id) = HomeId(src[i].row)
                   THEN AtHome(result[i].row, src[i].row)
                   ELSE Away(result[i].row, src[i].row)
              ELSE result[i].row.location = "home" /\ result[i].row.opponent = NULL

\* the log returned a row reported at home although its team is not the
\* game's home team, next to a row that is away with an opponent
C9_LocationWitness ==
    /\ call.op = "get_player_game_logs" /\ ~err
    /\ Len(result) = Len(LogSource)
    /\ \E i \in 1..Len(result) :
          /\ result[i].row.location = "home"
          /\ HomeId(LogSource[i].row) # NULL
          /\ _safe_int(LogSource[i].row.team_id) # HomeId(LogSource[i].row)

\* the log returned a row away with a known opponent
C9_AwayWitness ==
    /\ call.op = "get_player_game_logs" /\ ~err
    /\ \E r \in RowsOf(result) : r.location = "away" /\ r.opponent = S("KC")

-----------------------------------------------------------------------------
(* C10: a missing required input. *)

\* C10: the list asked without a season, and the game log asked with a
\* player_id that is null, empty or not an integer, return the empty
\* sequence, do not raise and issue no fetch.
C10_MissingInput ==
    /\ (call.op = "get_players_list" /\ call.season = NULL) =>
          result = <<>> /\ ~err /\ fetches = <<>>
    /\ (call.op = "get_player_game_logs" /\ IntRaises(call.player_id)) =>
          result = <<>> /\ ~err /\ fetches = <<>>

\* the game log was asked with an unusable player_id on a store that holds
\* game stats
C10_MissingInputWitness ==
    /\ call.op = "get_player_game_logs"
    /\ call.player_id \in {NULL, S(""), S("abc")}
    /\ gameStats # <<>>
    /\ fetches = <<>>

\* the list was asked without a season, with a team, on a store that holds
\* season stats
C10_NoSeasonWitness ==
    /\ call.op = "get_players_list" /\ call.season = NULL /\ Truthy(call.team)
    /\ seasonStats # <<>>
    /\ fetches = <<>>

-----------------------------------------------------------------------------
(* C11: in-list fetches and empty id lists. *)

\* C11: no pipeline issues a select whose in-list filter is built from an
\* empty id list: every fetch by `id in (...)` names at least one id.
C11_NoEmptyInList ==
    call.op \in Pipelines =>
        \A i \in 1..Len(fetches) : fetches[i].filter = "id.in" => fetches[i].ids # {}

\* the part of C11 that is about _team_map alone (it holds)
C11_TeamMapGuarded ==
    call.op \in Pipelines =>
        \A i \in 1..Len(fetches) :
            (fetches[i].filter = "id.in" /\ fetches[i].table = "nfl_teams")
                => fetches[i].ids # {}

-----------------------------------------------------------------------------
(* C12: number and order of the fetches of one invocation. *)

FetchingViews == {"get_players_list", "get_player_game_logs"} \cup DashViews
FactTables == {"nfl_player_season_stats", "nfl_player_game_stats"}
DimensionTables == {"nfl_teams", "nfl_players", "nfl_games"}

\* the positions of the fact-table fetches in the log of the invocation
FactFetches == {i \in 1..Len(fetches) : fetches[i].table \in FactTables}

\* the invocation was given a non-empty team
TeamGiven == call.op # "get_player_game_logs" /\ Truthy(call.team)

\* C12 as claimed: an invocation that fetches at all issues between 2 and 4
\* fetches, and its fact-table fetch comes before every dimension-table
\* fetch.
C12_FetchOrderOriginal ==
    (call.op \in FetchingViews /\ fetches # <<>>) =>
        /\ Len(fetches) >= 2 /\ Len(fetches) <= 4
        /\ FactFetches # {}
        /\ \A i \in FactFetches, j \in 1..Len(fetches) :
              fetches[j].table \in DimensionTables => i < j

\* C12, amended: an invocation that fetches at all issues between 1 and 4
\* fetches (the dashboards between 2 and 4), exactly one of them a
\* fact-table fetch; that fetch is the first one, or the second one after
\* the lookup of the team by abbreviation when a team is given; every fetch
\* after it is an id-keyed fetch of a dimension table.
C12_FetchOrder ==
    (call.op \in FetchingViews /\ fetches # <<>>) =>
        /\ Len(fetches) >= 1 /\ Len(fetches) <= 4
        /\ call.op \in DashViews => Len(fetches) >= 2
        /\ FactFetches = {IF TeamGiven THEN 2 ELSE 1}
        /\ TeamGiven => /\ fetches[1].table = "nfl_teams"
                        /\ fetches[1].filter = "abbreviation.eq"
        /\ \A j \in 1..Len(fetches) :
              (\A i \in FactFetches : i < j) =>
                  fetches[j].table \in DimensionTables /\ fetches[j].filter = "id.in"

\* the list, given a team, issued four fetches, the team lookup first
C12_FetchOrderWitness ==
    /\ call.op = "get_players_list" /\ TeamGiven
    /\ Len(fetches) = 4
    /\ fetches[1].table = "nfl_teams"
    /\ fetches[2].table = "nfl_player_season_stats"

\* an invocation that issued the fact-table fetch and nothing else
C12_SingleFetchWitness ==
    /\ call.op \in FetchingViews
    /\ Len(fetches) = 1
    /\ fetches[1].table \in FactTables

-----------------------------------------------------------------------------
(* C13: the season summaries and the list's cap of 300. *)

\* the stored stat rows that qualify for the list a season summary asks for
SeasonQualifying ==
    FilterRuns(seasonStats,
        [s \in RowsOf(seasonStats) |-> ListQualifies(s, "", TeamIdOf(call.team).id)])

\* the first 300 of them in the list's ranking (key descending, ties in
\* table order)
First300 ==
    TakeRuns(SortDesc(SeasonQualifying,
                      [s \in RowsOf(SeasonQualifying) |-> KeyOfStat(s)]), 300)

\* the team abbreviation the list shows for the player of stat row s
TeamOfStat(s) == AbbrOf(_safe_int(PlayerOf(_safe_int(s.player_id).v).team_id))

\* the stat column a summary shares out, as the store names it
StoreStat == IF call.op = "receiving_season" THEN "receiving_targets" ELSE "rushing_attempts"

RECURSIVE TeamStatTotal(_, _)
\* the stat summed over the stat rows rs whose player is of team t
TeamStatTotal(rs, t) ==
    IF rs = <<>> THEN 0
    ELSE (IF OrEmpty(TeamOfStat(Head(rs).row)) = t
          THEN OrZero(Head(rs).row[StoreStat]) * Head(rs).n ELSE 0)
         + TeamStatTotal(Tail(rs), t)

\* C13: a season summary sees at most 300 rows of the list; every row it
\* returns is one of the first 300 qualifying rows of the list's ranking,
\* and every team total is summed over those 300 rows only, whatever the
\* targets or rush attempts of the players ranked below them.
C13_Top300 ==
    (call.op \in SeasonViews /\ ~err) =>
        LET top == First300 IN
        /\ RunLen(ListGot) <= 300
        /\ \A r \in RowsOf(result) :
              /\ \E s \in RowsOf(top) :
                    /\ r.player_id = ToString(_safe_int(s.player_id).v)
                    /\ FiguresOf(r, s)
              /\ ShareIs(r, TeamStatTotal(top, OrEmpty(r.team)))

\* a summary returned rows while a qualifying row of one of its positions,
\* with a positive stat, is ranked below the first 300
C13_Top300Witness ==
    /\ call.op \in SeasonViews /\ ~err
    /\ result # <<>>
    /\ RunLen(SeasonQualifying) > 300
    /\ \E s \in RowsOf(SeasonQualifying) \ RowsOf(First300) :
          /\ Positive(s[StoreStat])
          /\ PosOf(PlayerOf(_safe_int(s.player_id).v)) \in PositionsOf(call.op)
          /\ \E r \in RowsOf(result) : OrEmpty(r.team) = OrEmpty(TeamOfStat(s))

====
